---- MODULE Spec2Model ----
(***************************************************************************)
(* Model of projects/veia/process_data.py: a batch script that loads a     *)
(* transaction ledger and derives the visualisation exports section by     *)
(* section (network, timeline, particles, geo_flows, wash_ring,            *)
(* marketplaces, stats and the dashboard files), writing each export to    *)
(* its JSON document.                                                      *)
(*                                                                         *)
(* A data frame is a sequence of row indices into the ledger (pandas keeps *)
(* the index of the rows it selects).  A mean or a rate is the pair        *)
(* [num, den] of its numerator and denominator; den = 0 is the NaN pandas  *)
(* returns for the mean of an empty selection.  Cosmetic random            *)
(* coordinates (node positions, jitter) and the users table's region/kyc   *)
(* columns are left out; random samples are nondeterministic choices.      *)
(***************************************************************************)
EXTENDS Integers, Sequences, FiniteSets, TLC

\* ------------------------------------------------------------------------
\* Bounds.  The size caps of the script (80, 2000, 20, 200, 1000, 500, 100)
\* are scaled down so that ledgers of MaxRows rows reach them.
\* ------------------------------------------------------------------------
MaxRows == 3
AnyOrderMaxRows == 2
ActiveTopN == 1
ParticleSampleCap == 2
RingTopN == 2
RingEdgeCap == 2
MarketSampleCap == 2
DashSampleCap == 2
TopAnomaliesCap == 2

\* ------------------------------------------------------------------------
\* The input: rows of veia_transactions.csv
\* ------------------------------------------------------------------------
Txn(b, s, c, p, z, m, br, sr, l, d) ==
    [buyer_id |-> b, seller_id |-> s, category |-> c, price |-> p,
     price_z |-> z, marketplace |-> m, buyer_region |-> br,
     seller_region |-> sr, anomaly_label |-> l, day |-> d]

Rows ==
    { Txn(1, 2, "skins",   10,  1, "Prime",  "EU",  "SEA", "normal",          1),
      Txn(1, 2, "skins",   20,  1, "Prime",  "EU",  "SEA", "wash_trade_ring", 1),
      Txn(2, 1, "weapons", 30, -3, "Shadow", "SEA", "EU",  "wash_trade_ring", 2),
      Txn(1, 2, "weapons", 40, -3, "Arcade", "EU",  "SEA", "layering_burst",  2),
      Txn(3, 1, "skins",    5,  1, "Arcade", "AFR", "EU",  "normal",          1),
      Txn(3, 3, "weapons",  5,  1, "Shadow", "AFR", "AFR", "normal",          2),
      Txn(2, 2, "skins",    0, -3, "Arcade", "SEA", "SEA", "layering_burst",  1),
      Txn(2, 3, "weapons", -5,  1, "Prime",  "SEA", "EU",  "wash_trade_ring", 1) }

Ledgers(n) == UNION { [1..k -> Rows] : k \in 1..n }

\* Python's string order (code points) on the strings of the model.
SortedStrings ==
    << "AFR", "Arcade", "EAST_ASIA", "EU", "LATAM", "OCE", "Prime", "SEA",
       "Shadow", "layering_burst", "normal", "skins", "wash_trade_ring",
       "weapons" >>

Rank(s) == CHOOSE i \in 1..Len(SortedStrings) : SortedStrings[i] = s

\* ------------------------------------------------------------------------
\* Helpers: arithmetic, sequences, group keys
\* ------------------------------------------------------------------------
Min(a, b) == IF a <= b THEN a ELSE b

Abs(x) == IF x < 0 THEN -x ELSE x

Rat(n, d) == [num |-> n, den |-> d]

\* float(min(r, 1.0)): Python's min returns its first argument unless the
\* second is smaller, so a NaN passes through.
ClampOne(r) ==
    IF r.den = 0 THEN r
    ELSE IF r.num >= r.den THEN Rat(1, 1) ELSE r

RECURSIVE SumSeq(_)
SumSeq(s) == IF s = <<>> THEN 0 ELSE Head(s) + SumSeq(Tail(s))

Take(s, n) == SubSeq(s, 1, Min(n, Len(s)))

SeqRange(s) == { s[i] : i \in 1..Len(s) }

\* The values of a column in order of first appearance (Series.unique()).
RECURSIVE Unique(_)
Unique(s) ==
    IF s = <<>> THEN <<>>
    ELSE LET r == Unique(SubSeq(s, 1, Len(s) - 1))
             x == s[Len(s)]
         IN  IF x \in SeqRange(r) THEN r ELSE Append(r, x)

\* Lexicographic order on tuples of integers of equal length.
RECURSIVE KeyLess(_, _)
KeyLess(a, b) ==
    /\ a # <<>>
    /\ \/ Head(a) < Head(b)
       \/ Head(a) = Head(b) /\ KeyLess(Tail(a), Tail(b))

\* The keys of a groupby, in sorted order (groupby sorts its keys).
RECURSIVE SortKeys(_)
SortKeys(S) ==
    IF S = {} THEN <<>>
    ELSE LET m == CHOOSE x \in S : \A y \in S \ {x} : KeyLess(x, y)
         IN  <<m>> \o SortKeys(S \ {m})

\* ------------------------------------------------------------------------
\* Frames over a ledger
\* ------------------------------------------------------------------------
IsAnomaly(r) == r.anomaly_label # "normal"

AllIdx(txns) == [i \in 1..Len(txns) |-> i]

\* transactions[mask]: the rows of the ledger that are in mask (a set of
\* rows), in ledger order
Where(txns, mask) == SelectSeq(AllIdx(txns), LAMBDA i : txns[i] \in mask)

\* a column of a frame, col giving each row's value
Column(txns, frame, col) == [k \in 1..Len(frame) |-> col[txns[frame[k]]]]

CountOf(txns, frame, mask) ==
    Cardinality({ k \in 1..Len(frame) : txns[frame[k]] \in mask })

SumPrice(txns, frame) == SumSeq(Column(txns, frame, [r \in SeqRange(txns) |-> r.price]))

SumAbsZ(txns, frame) == SumSeq(Column(txns, frame, [r \in SeqRange(txns) |-> Abs(r.price_z)]))

AnomalyCount(txns, frame) == CountOf(txns, frame, { r \in SeqRange(txns) : IsAnomaly(r) })

\* Series.mean(): NaN (den = 0) on an empty selection
MeanAbsZ(txns, frame) == Rat(SumAbsZ(txns, frame), Len(frame))

MeanPrice(txns, frame) == Rat(SumPrice(txns, frame), Len(frame))

AnomalyRate(txns, frame) == Rat(AnomalyCount(txns, frame), Len(frame))

\* value_counts().head(n).index as a set: n most frequent values; the order
\* among equal counts is left to the sort, so any such set may come out.
TopSets(cnt, n) ==
    LET present == { u \in DOMAIN cnt : cnt[u] > 0 }
    IN  { S \in SUBSET present :
            /\ Cardinality(S) = Min(n, Cardinality(present))
            /\ \A a \in S : \A b \in present \ S : cnt[a] >= cnt[b] }

UserIds(txns) ==
    { txns[i].buyer_id : i \in 1..Len(txns) } \cup
    { txns[i].seller_id : i \in 1..Len(txns) }

\* ------------------------------------------------------------------------
\* The script's sections and the documents each writes
\* ------------------------------------------------------------------------
Sections ==
    << "network", "timeline", "particles", "geo_flows", "wash_ring",
       "marketplaces", "stats", "dashboard_sample", "dashboard_top" >>

SectionSet == SeqRange(Sections)

Pos(s) == CHOOSE i \in 1..Len(Sections) : Sections[i] = s

Docs(s) ==
    CASE s = "network"          -> {"network.json"}
      [] s = "timeline"         -> {"timeline.json"}
      [] s = "particles"        -> {"particles.json"}
      [] s = "geo_flows"        -> {"geo_flows.json"}
      [] s = "wash_ring"        -> {"wash_ring.json"}
      [] s = "marketplaces"     -> {"marketplaces.json"}
      [] s = "stats"            -> {"stats.json"}
      [] s = "dashboard_sample" -> {"transactions.json"}
      [] s = "dashboard_top"    -> {"anomalies.json", "categories.json"}

\* The seven views of the pipeline; the dashboard files belong to the
\* stats view.
Views ==
    { "network", "timeline", "particles", "geo_flows", "wash_ring",
      "marketplaces", "stats" }

ViewOf(s) ==
    IF s \in {"dashboard_sample", "dashboard_top"} THEN "stats" ELSE s

ViewDocs(v) == UNION { Docs(s) : s \in { t \in SectionSet : ViewOf(t) = v } }

VARIABLES
    transactions,   \* the ledger, once loaded
    loaded,         \* the input tables have been read
    status,         \* per section: pending, computed, written or failed
    error,          \* the exception that ended the script, or "none"
    files,          \* the documents written so far
    anomalies,      \* the anomalies frame of the timeline section
    flows,          \* the grouped flows frame of the geo section
    export          \* per section, the export object built in memory

vars == << transactions, loaded, status, error, files, anomalies, flows, export >>

Undefined == [defined |-> FALSE, idx |-> <<>>]

Init ==
    /\ transactions = <<>>
    /\ loaded = FALSE
    /\ status = [s \in SectionSet |-> "pending"]
    /\ error = "none"
    /\ files = {}
    /\ anomalies = Undefined
    /\ flows = <<>>
    /\ export = [s \in SectionSet |-> <<>>]

\* A section that starts as soon as the sections above it have computed,
\* without waiting for their documents.
InOrderNoWait(s) ==
    /\ loaded
    /\ error = "none"
    /\ status[s] = "pending"
    /\ \A t \in SectionSet :
          Pos(t) < Pos(s) => status[t] \in {"computed", "written"}

\* A section of the script runs when every section above it has run and
\* written its document, and no exception has ended the script.
InOrder(s) ==
    /\ loaded
    /\ error = "none"
    /\ status[s] = "pending"
    /\ \A t \in SectionSet : Pos(t) < Pos(s) => status[t] = "written"

\* Lines 19-26: read the tables
LoadFrom(n) ==
    /\ ~loaded
    /\ \E l \in Ledgers(n) : transactions' = l
    /\ loaded' = TRUE
    /\ UNCHANGED << status, error, files, anomalies, flows, export >>

Load == LoadFrom(MaxRows)

Done(s, e) ==
    /\ status' = [status EXCEPT ![s] = "computed"]
    /\ export' = [export EXCEPT ![s] = e]
    /\ error' = error

Raise(s, e) ==
    /\ status' = [status EXCEPT ![s] = "failed"]
    /\ error' = e
    /\ export' = export

\* ------------------------------------------------------------------------
\* 1. Network graph (lines 37-119)
\* ------------------------------------------------------------------------
BuyerCounts(txns) ==
    [u \in UserIds(txns) |->
        Cardinality({ i \in 1..Len(txns) : txns[i].buyer_id = u })]

SellerCounts(txns) ==
    [u \in UserIds(txns) |->
        Cardinality({ i \in 1..Len(txns) : txns[i].seller_id = u })]

NodeData(txns, active) ==
    { LET user_txns == Where(txns, { r \in SeqRange(txns) : r.buyer_id = u \/ r.seller_id = u })
      IN  [id |-> u,
           tx_count |-> Len(user_txns),
           anomaly_count |-> AnomalyCount(txns, user_txns),
           total_value |-> SumPrice(txns, user_txns)] : u \in active }

\* Rows with either endpoint in the active set.
NetworkTxnsEither(txns, active) ==
    Where(txns, { r \in SeqRange(txns) : r.buyer_id \in active \/ r.seller_id \in active })

NetworkTxns(txns, active) ==
    Where(txns, { r \in SeqRange(txns) : r.buyer_id \in active /\ r.seller_id \in active })

Freq(labels, l) == Cardinality({ k \in 1..Len(labels) : labels[k] = l })

\* The most frequent label met first in the group.
ModeFirstSeen(labels) ==
    labels[CHOOSE k \in 1..Len(labels) :
              /\ \A m \in SeqRange(labels) : Freq(labels, m) <= Freq(labels, labels[k])
              /\ \A j \in 1..(k - 1) : Freq(labels, labels[j]) < Freq(labels, labels[k])]

\* x.mode()[0]: Series.mode() returns the most frequent values sorted, so
\* element 0 is the smallest of them.
Mode(labels) ==
    CHOOSE l \in SeqRange(labels) :
        /\ \A m \in SeqRange(labels) : Freq(labels, m) <= Freq(labels, l)
        /\ \A m \in SeqRange(labels) :
              Freq(labels, m) = Freq(labels, l) => Rank(l) <= Rank(m)

EdgeData(txns, active) ==
    LET network_txns == NetworkTxns(txns, active)
        keys == SortKeys({ << txns[i].buyer_id, txns[i].seller_id >> :
                              i \in SeqRange(network_txns) })
    IN  [k \in 1..Len(keys) |->
            LET g == SelectSeq(network_txns,
                        LAMBDA i : << txns[i].buyer_id, txns[i].seller_id >> = keys[k])
                price_z == MeanAbsZ(txns, g)
            IN  [source |-> keys[k][1],
                 target |-> keys[k][2],
                 tx_count |-> Len(g),
                 total_value |-> SumPrice(txns, g),
                 avg_price_z |-> price_z,
                 anomaly_count |-> AnomalyCount(txns, g),
                 anomaly_type |-> Mode(Column(txns, g, [r \in SeqRange(txns) |-> r.anomaly_label])),
                 intensity |-> ClampOne(Rat(price_z.num, 2 * price_z.den))]]

NetworkExport(txns, active) ==
    LET node_data == NodeData(txns, active)
        edge_data == EdgeData(txns, active)
    IN  [nodes |-> node_data,
         edges |-> edge_data,
         metadata |-> [total_nodes |-> Cardinality(node_data),
                       total_edges |-> Len(edge_data)]]

NetworkBody ==
    /\ \E top_buyers \in TopSets(BuyerCounts(transactions), ActiveTopN) :
       \E top_sellers \in TopSets(SellerCounts(transactions), ActiveTopN) :
           Done("network", NetworkExport(transactions, top_buyers \cup top_sellers))
    /\ UNCHANGED << transactions, loaded, files, anomalies, flows >>

\* ------------------------------------------------------------------------
\* 2. Anomaly timeline (lines 126-172)
\* ------------------------------------------------------------------------
Anomalies(txns) == Where(txns, { r \in SeqRange(txns) : IsAnomaly(r) })

TemporalData(txns, anoms) ==
    LET types == Unique(Column(txns, anoms, [r \in SeqRange(txns) |-> r.anomaly_label]))
    IN  [k \in 1..Len(types) |->
            LET type_data == SelectSeq(anoms, LAMBDA i : txns[i].anomaly_label = types[k])
                days == SortKeys({ << txns[i].day >> : i \in SeqRange(type_data) })
            IN  [type |-> types[k],
                 total_count |-> Len(type_data),
                 avg_price |-> MeanPrice(txns, type_data),
                 avg_z_score |-> MeanAbsZ(txns, type_data),
                 daily_counts |->
                    [d \in 1..Len(days) |->
                        LET g == SelectSeq(type_data, LAMBDA i : txns[i].day = days[d][1])
                        IN  [day |-> days[d][1],
                             count |-> Len(g),
                             value |-> SumPrice(txns, g),
                             intensity |-> MeanAbsZ(txns, g)]]]]

TimelineBody ==
    /\ anomalies' = [defined |-> TRUE, idx |-> Anomalies(transactions)]
    /\ Done("timeline", [anomaly_types |-> TemporalData(transactions, Anomalies(transactions))])
    /\ UNCHANGED << transactions, loaded, files, flows >>

\* ------------------------------------------------------------------------
\* 3. Particle field (lines 179-234)
\* ------------------------------------------------------------------------
HighIntensity(txns) == Where(txns, { r \in SeqRange(txns) : Abs(r.price_z) > 2 })

NormalPool(txns) == Where(txns, { r \in SeqRange(txns) : Abs(r.price_z) <= 2 })

\* the n of .sample(n=...) on line 184
ParticleSampleSize(txns) == Min(ParticleSampleCap, Len(txns))

\* DataFrame.sample(n) without replacement: every n-subset of the frame;
\* sample raises ValueError when n exceeds the frame's length.
Samples(frame, n) == { S \in SUBSET SeqRange(frame) : Cardinality(S) = n }

Particle(txns, i) ==
    LET deviation_abs == Abs(txns[i].price_z)
    IN  [row |-> i,
         z |-> txns[i].price_z * 3,
         size |-> 2 + deviation_abs * 2,
         intensity |-> ClampOne(Rat(deviation_abs, 4)),
         is_flare |-> deviation_abs > 2,
         category |-> txns[i].category,
         price |-> txns[i].price,
         z_score |-> txns[i].price_z,
         anomaly_type |-> txns[i].anomaly_label]

ParticleExport(txns, anoms, normal_sample) ==
    LET categories == Unique(Column(txns, AllIdx(txns), [r \in SeqRange(txns) |-> r.category]))
        particle_txns == SeqRange(HighIntensity(txns)) \cup normal_sample
        particle_data ==
            { Particle(txns, i) :
                i \in { j \in particle_txns : txns[j].category \in SeqRange(categories) } }
    IN  [particles |-> particle_data,
         categories |->
            [k \in 1..Len(categories) |->
                [name |-> categories[k],
                 center_x |-> (k - 1) * 30,
                 total |-> CountOf(txns, AllIdx(txns), { r \in SeqRange(txns) : r.category = categories[k] }),
                 anomalies |-> CountOf(txns, anoms, { r \in SeqRange(txns) : r.category = categories[k] })]],
         metadata |->
            [total_particles |-> Cardinality(particle_data),
             flare_count |-> Cardinality({ p \in particle_data : p.is_flare })]]

ParticlesBody ==
    /\ IF ParticleSampleSize(transactions) > Len(NormalPool(transactions))
       THEN Raise("particles", "ValueError")
       ELSE IF ~anomalies.defined
       THEN Raise("particles", "NameError")
       ELSE \E normal_sample \in Samples(NormalPool(transactions),
                                         ParticleSampleSize(transactions)) :
               Done("particles",
                    ParticleExport(transactions, anomalies.idx, normal_sample))
    /\ UNCHANGED << transactions, loaded, files, anomalies, flows >>

\* ------------------------------------------------------------------------
\* 4. Geographic flows (lines 241-289)
\* ------------------------------------------------------------------------
region_coords ==
    [c \in {"EU", "SEA", "EAST_ASIA", "OCE", "LATAM"} |->
        CASE c = "EU"        -> [lat |-> 50,  lon |-> 10,  name |-> "Europe"]
          [] c = "SEA"       -> [lat |-> 10,  lon |-> 105, name |-> "Southeast Asia"]
          [] c = "EAST_ASIA" -> [lat |-> 35,  lon |-> 120, name |-> "East Asia"]
          [] c = "OCE"       -> [lat |-> -25, lon |-> 135, name |-> "Oceania"]
          [] c = "LATAM"     -> [lat |-> -10, lon |-> -60, name |-> "Latin America"]]

RegionCodes == << "EU", "SEA", "EAST_ASIA", "OCE", "LATAM" >>

\* A lookup that defaults on a missing key instead of raising.
RegionLookupDefault(code) ==
    IF code \in DOMAIN region_coords THEN << region_coords[code] >>
    ELSE << [lat |-> 0, lon |-> 0, name |-> "Unknown"] >>

\* region_coords[code]: <<entry>> when the key is there, <<>> for the
\* KeyError of a missing key.
RegionLookup(code) ==
    IF code \in DOMAIN region_coords THEN << region_coords[code] >> ELSE <<>>

\* lines 250-255: group by (buyer_region, seller_region, marketplace), then
\* drop the self-loops
Flows(txns) ==
    LET keys == SortKeys({ << Rank(txns[i].buyer_region), Rank(txns[i].seller_region),
                              Rank(txns[i].marketplace) >> : i \in 1..Len(txns) })
        grouped ==
            [k \in 1..Len(keys) |->
                LET g == Where(txns, { r \in SeqRange(txns) :
                            << Rank(r.buyer_region), Rank(r.seller_region),
                               Rank(r.marketplace) >> = keys[k] })
                IN  [buyer_region |-> SortedStrings[keys[k][1]],
                     seller_region |-> SortedStrings[keys[k][2]],
                     marketplace |-> SortedStrings[keys[k][3]],
                     transaction_id |-> Len(g),
                     price |-> SumPrice(txns, g),
                     is_anomaly |-> AnomalyCount(txns, g)]]
    IN  SelectSeq(grouped, LAMBDA row : row.buyer_region # row.seller_region)

FlowEntry(row) ==
    [source |-> row.buyer_region,
     target |-> row.seller_region,
     source_coords |-> RegionLookup(row.buyer_region),
     target_coords |-> RegionLookup(row.seller_region),
     marketplace |-> row.marketplace,
     tx_count |-> row.transaction_id,
     total_value |-> row.price,
     anomaly_count |-> row.is_anomaly,
     anomaly_rate |-> Rat(row.is_anomaly, row.transaction_id),
     intensity |-> ClampOne(Rat(row.is_anomaly, row.transaction_id))]

FlowData(flow_rows) == [k \in 1..Len(flow_rows) |-> FlowEntry(flow_rows[k])]

\* the loop of lines 258-270 raises at the first row whose lookup misses
FlowLookupFails(flow_rows) ==
    \E k \in 1..Len(flow_rows) :
        \/ FlowData(flow_rows)[k].source_coords = <<>>
        \/ FlowData(flow_rows)[k].target_coords = <<>>

GeoExport(txns, flow_rows) ==
    [flows |-> FlowData(flow_rows),
     regions |->
        [k \in 1..Len(RegionCodes) |->
            [code |-> RegionCodes[k],
             coords |-> region_coords[RegionCodes[k]],
             total_transactions |->
                CountOf(txns, AllIdx(txns),
                        { r \in SeqRange(txns) : r.buyer_region = RegionCodes[k]
                                   \/ r.seller_region = RegionCodes[k] })]]]

GeoFlowsBody ==
    /\ flows' = Flows(transactions)
    /\ IF FlowLookupFails(Flows(transactions))
       THEN Raise("geo_flows", "KeyError")
       ELSE Done("geo_flows", GeoExport(transactions, Flows(transactions)))
    /\ UNCHANGED << transactions, loaded, files, anomalies >>

\* ------------------------------------------------------------------------
\* 5. Wash trade rings (lines 296-343)
\* ------------------------------------------------------------------------
WashTrades(txns) == Where(txns, { r \in SeqRange(txns) : r.anomaly_label = "wash_trade_ring" })

\* pd.concat([buyer_id, seller_id]).value_counts() over the wash trades
RingCounts(txns) ==
    [u \in UserIds(txns) |->
        CountOf(txns, WashTrades(txns), { r \in SeqRange(txns) : r.buyer_id = u })
        + CountOf(txns, WashTrades(txns), { r \in SeqRange(txns) : r.seller_id = u })]

\* value_counts().head(n).index in rank order: the n most frequent values by
\* non-increasing count, equal counts in whatever order the sort leaves.
RankOrders(cnt, n) ==
    UNION { { q \in [1..Cardinality(S) -> S] :
                /\ \A i, j \in DOMAIN q : i < j => q[i] # q[j] /\ cnt[q[i]] >= cnt[q[j]] }
            : S \in TopSets(cnt, n) }

RingTxns(txns, ring_users) ==
    Where(txns, { r \in SeqRange(txns) : r.buyer_id \in SeqRange(ring_users)
                           /\ r.seller_id \in SeqRange(ring_users) })

RingNodes(txns, ring_users) ==
    [k \in 1..Len(ring_users) |->
        [id |-> ring_users[k],
         ring_position |-> k - 1,
         wash_trade_count |->
            CountOf(txns, WashTrades(txns),
                    { r \in SeqRange(txns) : r.buyer_id = ring_users[k] \/ r.seller_id = ring_users[k] })]]

RingEdge(r) ==
    [source |-> r.buyer_id,
     target |-> r.seller_id,
     is_wash_trade |-> r.anomaly_label = "wash_trade_ring",
     price |-> r.price,
     day |-> r.day]

RingEdges(txns, ring_users) ==
    LET kept == SelectSeq(RingTxns(txns, ring_users),
                    LAMBDA i : txns[i].buyer_id \in SeqRange(ring_users)
                               /\ txns[i].seller_id \in SeqRange(ring_users))
    IN  Column(txns, kept, [r \in SeqRange(txns) |-> RingEdge(r)])

\* The last entries instead of the first.
RingEdgeSliceTail(ring_edges) ==
    SubSeq(ring_edges, Len(ring_edges) - Min(RingEdgeCap, Len(ring_edges)) + 1,
           Len(ring_edges))

\* ring_edges[:200]
RingEdgeSlice(ring_edges) == Take(ring_edges, RingEdgeCap)

RingExport(txns, ring_users) ==
    [nodes |-> RingNodes(txns, ring_users),
     edges |-> RingEdgeSlice(RingEdges(txns, ring_users)),
     metadata |-> [total_wash_trades |-> Len(WashTrades(txns)),
                   ring_size |-> Len(ring_users)]]

WashRingBody ==
    /\ \E ring_users \in RankOrders(RingCounts(transactions), RingTopN) :
           Done("wash_ring", RingExport(transactions, ring_users))
    /\ UNCHANGED << transactions, loaded, files, anomalies, flows >>

\* ------------------------------------------------------------------------
\* 6. Marketplace clusters (lines 350-398)
\* ------------------------------------------------------------------------
marketplace_centers ==
    << [name |-> "Prime",  x |-> -40, y |-> 0, z |-> 0],
       [name |-> "Shadow", x |-> 0,   y |-> 0, z |-> 0],
       [name |-> "Arcade", x |-> 40,  y |-> 0, z |-> 0] >>

MarketTxns(txns, marketplace) == Where(txns, { r \in SeqRange(txns) : r.marketplace = marketplace })

MarketSamples(txns, marketplace) ==
    Samples(MarketTxns(txns, marketplace),
            Min(MarketSampleCap, Len(MarketTxns(txns, marketplace))))

MarketStats(txns, marketplace) ==
    LET market_stats == MarketTxns(txns, marketplace)
    IN  [total_transactions |-> Len(market_stats),
         total_value |-> SumPrice(txns, market_stats),
         anomaly_count |-> AnomalyCount(txns, market_stats),
         anomaly_rate |-> AnomalyRate(txns, market_stats)]

\* sampled: for each marketplace of marketplace_centers, the rows drawn
MarketplaceData(txns, sampled) ==
    [k \in 1..Len(marketplace_centers) |->
        [name |-> marketplace_centers[k].name,
         center |-> marketplace_centers[k],
         points |->
            { [row |-> i,
               is_anomaly |-> IsAnomaly(txns[i]),
               price |-> txns[i].price,
               category |-> txns[i].category,
               anomaly_type |-> txns[i].anomaly_label] : i \in sampled[k] },
         stats |-> MarketStats(txns, marketplace_centers[k].name)]]

MarketplaceExport(txns, sampled) ==
    LET marketplace_data == MarketplaceData(txns, sampled)
    IN  [marketplaces |-> marketplace_data,
         metadata |->
            [total_points |->
                SumSeq([k \in 1..Len(marketplace_data) |->
                            Cardinality(marketplace_data[k].points)])]]

MarketplacesBody ==
    /\ \E s1 \in MarketSamples(transactions, marketplace_centers[1].name) :
       \E s2 \in MarketSamples(transactions, marketplace_centers[2].name) :
       \E s3 \in MarketSamples(transactions, marketplace_centers[3].name) :
           Done("marketplaces", MarketplaceExport(transactions, << s1, s2, s3 >>))
    /\ UNCHANGED << transactions, loaded, files, anomalies, flows >>

\* ------------------------------------------------------------------------
\* 7. Stats summary (lines 405-447)
\* ------------------------------------------------------------------------
StatsExport(txns) ==
    LET all == AllIdx(txns)
        types == Unique(Column(txns, Where(txns, { r \in SeqRange(txns) : IsAnomaly(r) }), [r \in SeqRange(txns) |-> r.anomaly_label]))
        markets == Unique(Column(txns, all, [r \in SeqRange(txns) |-> r.marketplace]))
        cats == Unique(Column(txns, all, [r \in SeqRange(txns) |-> r.category]))
    IN  [overview |->
            [total_transactions |-> Len(txns),
             total_anomalies |-> AnomalyCount(txns, all),
             detection_rate |-> AnomalyRate(txns, all),
             total_volume |-> SumPrice(txns, all)],
         anomaly_breakdown |->
            [k \in 1..Len(types) |->
                LET g == Where(txns, { r \in SeqRange(txns) : r.anomaly_label = types[k] })
                IN  [type |-> types[k],
                     count |-> Len(g),
                     avg_price |-> MeanPrice(txns, g),
                     avg_z_score |-> MeanAbsZ(txns, g)]],
         marketplaces |->
            [k \in 1..Len(markets) |->
                LET g == MarketTxns(txns, markets[k])
                IN  [name |-> markets[k],
                     transactions |-> Len(g),
                     anomaly_rate |-> AnomalyRate(txns, g),
                     total_value |-> SumPrice(txns, g)]],
         categories |->
            [c \in SeqRange(cats) |->
                LET g == Where(txns, { r \in SeqRange(txns) : r.category = c })
                IN  [total |-> Len(g),
                     anomalies |-> AnomalyCount(txns, g),
                     anomaly_rate |-> AnomalyRate(txns, g)]]]

StatsBody ==
    /\ Done("stats", StatsExport(transactions))
    /\ UNCHANGED << transactions, loaded, files, anomalies, flows >>

\* ------------------------------------------------------------------------
\* 8. Dashboard exports (lines 455-487)
\* ------------------------------------------------------------------------
TransactionsExport(txns, sample) ==
    { [transaction_id |-> i,
       buyer_id |-> txns[i].buyer_id,
       seller_id |-> txns[i].seller_id,
       category |-> txns[i].category,
       price |-> txns[i].price,
       marketplace |-> txns[i].marketplace,
       is_anomaly |-> IsAnomaly(txns[i]),
       anomaly_label |-> txns[i].anomaly_label] : i \in sample }

DashboardSampleBody ==
    /\ \E sample \in Samples(AllIdx(transactions),
                             Min(DashSampleCap, Len(transactions))) :
           Done("dashboard_sample", TransactionsExport(transactions, sample))
    /\ UNCHANGED << transactions, loaded, files, anomalies, flows >>

\* The n rows of largest signed price_z (the absolute value forgotten).
RECURSIVE NLargestSigned(_, _, _)
NLargestSigned(txns, frame, n) ==
    IF n = 0 \/ frame = <<>> THEN <<>>
    ELSE LET best == CHOOSE k \in 1..Len(frame) :
                        /\ \A j \in 1..Len(frame) :
                              txns[frame[j]].price_z <= txns[frame[k]].price_z
                        /\ \A j \in 1..(k - 1) :
                              txns[frame[j]].price_z < txns[frame[k]].price_z
             rest == SelectSeq(frame, LAMBDA i : i # frame[best])
         IN  << frame[best] >> \o NLargestSigned(txns, rest, n - 1)

\* DataFrame.nlargest(n, column) with keep='first': the n rows of largest
\* value in descending order, equal values in order of appearance.
RECURSIVE NLargest(_, _, _)
NLargest(txns, frame, n) ==
    IF n = 0 \/ frame = <<>> THEN <<>>
    ELSE LET best == CHOOSE k \in 1..Len(frame) :
                        /\ \A j \in 1..Len(frame) :
                              Abs(txns[frame[j]].price_z) <= Abs(txns[frame[k]].price_z)
                        /\ \A j \in 1..(k - 1) :
                              Abs(txns[frame[j]].price_z) < Abs(txns[frame[k]].price_z)
             rest == SelectSeq(frame, LAMBDA i : i # frame[best])
         IN  << frame[best] >> \o NLargest(txns, rest, n - 1)

\* the row index stands for the row's transaction_id
AnomaliesExport(txns, anoms) ==
    LET top_anomalies == NLargest(txns, anoms, TopAnomaliesCap)
    IN  [k \in 1..Len(top_anomalies) |->
            [transaction_id |-> top_anomalies[k],
             category |-> txns[top_anomalies[k]].category,
             price |-> txns[top_anomalies[k]].price,
             price_z |-> txns[top_anomalies[k]].price_z,
             anomaly_label |-> txns[top_anomalies[k]].anomaly_label]]

DashboardTopBody ==
    /\ IF ~anomalies.defined
       THEN Raise("dashboard_top", "NameError")
       ELSE Done("dashboard_top",
                 [anomalies |-> AnomaliesExport(transactions, anomalies.idx),
                  categories |-> export["stats"].categories])
    /\ UNCHANGED << transactions, loaded, files, anomalies, flows >>

\* json.dump of a section's export, right after its computation
WriteOutput ==
    \E s \in SectionSet :
        /\ status[s] = "computed"
        /\ error = "none"
        /\ files' = files \cup Docs(s)
        /\ status' = [status EXCEPT ![s] = "written"]
        /\ UNCHANGED << transactions, loaded, error, anomalies, flows, export >>

\* ------------------------------------------------------------------------
\* The script as written: sections top to bottom
\* ------------------------------------------------------------------------
Network == InOrder("network") /\ NetworkBody

Timeline == InOrder("timeline") /\ TimelineBody

Particles == InOrder("particles") /\ ParticlesBody

GeoFlows == InOrder("geo_flows") /\ GeoFlowsBody

WashRing == InOrder("wash_ring") /\ WashRingBody

Marketplaces == InOrder("marketplaces") /\ MarketplacesBody

Stats == InOrder("stats") /\ StatsBody

DashboardSample == InOrder("dashboard_sample") /\ DashboardSampleBody

DashboardTop == InOrder("dashboard_top") /\ DashboardTopBody

Next ==
    \/ Load
    \/ Network
    \/ Timeline
    \/ Particles
    \/ GeoFlows
    \/ WashRing
    \/ Marketplaces
    \/ Stats
    \/ DashboardSample
    \/ DashboardTop
    \/ WriteOutput

Spec == Init /\ [][Next]_vars

\* ------------------------------------------------------------------------
\* The views run as blocks in any order (one view after another in some
\* permutation); the sections of one view keep their order.
\* ------------------------------------------------------------------------
AnyOrder(s) ==
    /\ loaded
    /\ error = "none"
    /\ status[s] = "pending"
    /\ \A t \in SectionSet : status[t] # "computed"
    /\ \A t \in SectionSet :
          ViewOf(t) = ViewOf(s) /\ Pos(t) < Pos(s) => status[t] = "written"
    /\ \A t \in SectionSet :
          status[t] # "pending" /\ ViewOf(t) # ViewOf(s) =>
              \A u \in SectionSet : ViewOf(u) = ViewOf(t) => status[u] = "written"

LoadAny == LoadFrom(AnyOrderMaxRows)

NetworkAny == AnyOrder("network") /\ NetworkBody

TimelineAny == AnyOrder("timeline") /\ TimelineBody

ParticlesAny == AnyOrder("particles") /\ ParticlesBody

GeoFlowsAny == AnyOrder("geo_flows") /\ GeoFlowsBody

WashRingAny == AnyOrder("wash_ring") /\ WashRingBody

MarketplacesAny == AnyOrder("marketplaces") /\ MarketplacesBody

StatsAny == AnyOrder("stats") /\ StatsBody

DashboardSampleAny == AnyOrder("dashboard_sample") /\ DashboardSampleBody

DashboardTopAny == AnyOrder("dashboard_top") /\ DashboardTopBody

NextAnyOrder ==
    \/ LoadAny
    \/ NetworkAny
    \/ TimelineAny
    \/ ParticlesAny
    \/ GeoFlowsAny
    \/ WashRingAny
    \/ MarketplacesAny
    \/ StatsAny
    \/ DashboardSampleAny
    \/ DashboardTopAny
    \/ WriteOutput

SpecAnyOrder == Init /\ [][NextAnyOrder]_vars

\* ------------------------------------------------------------------------
\* Properties
\* ------------------------------------------------------------------------
Has(s) == status[s] \in {"computed", "written"}

Attempted(s) == status[s] # "pending"

EdgeSeq == export["network"].edges

ActiveSet == { n.id : n \in export["network"].nodes }

InUnit(r) == r.den > 0 /\ 0 <= r.num /\ r.num <= r.den

Defined(r) == r.den > 0

\* C1: views are isolated units of failure: once the computation of one view
\* has failed, each of the other six views is still computed and its
\* documents are still written.  Stated of the states in which the script
\* has stopped on an exception.
C1_ViewsIsolated ==
    error # "none" =>
        \A v \in Views :
            \/ \E s \in SectionSet : ViewOf(s) = v /\ status[s] = "failed"
            \/ ViewDocs(v) \subseteq files

\* C2: the views do not depend on each other: in whatever order the views
\* run, a section fails only if its own computation fails on the ledger
\* (the particle sample, the region lookup), never for want of a value that
\* another view produces.
OwnFailure(s) ==
    \/ /\ s = "particles"
       /\ ParticleSampleSize(transactions) > Len(NormalPool(transactions))
    \/ /\ s = "geo_flows"
       /\ FlowLookupFails(Flows(transactions))

C2_OrderIndependent ==
    \A s \in SectionSet : status[s] = "failed" => OwnFailure(s)

C4_ParticleCount ==
    Attempted("particles") =>
        /\ status["particles"] # "failed"
        /\ Cardinality(export["particles"].particles)
              = Cardinality({ i \in 1..Len(transactions) :
                                 Abs(transactions[i].price_z) > 2 })
                + Min(ParticleSampleCap,
                      Cardinality({ i \in 1..Len(transactions) :
                                       Abs(transactions[i].price_z) <= 2 }))

\* C5: every emitted per-group entry with a mean or a rate is computed over
\* at least one ledger row, and its mean or rate is defined (not NaN): a
\* group without members is absent from the output.
C5_NoEmptyGroups ==
    /\ Has("network") =>
          \A k \in DOMAIN EdgeSeq :
              EdgeSeq[k].tx_count >= 1 /\ Defined(EdgeSeq[k].avg_price_z)
    /\ Has("timeline") =>
          \A k \in DOMAIN export["timeline"].anomaly_types :
              LET t == export["timeline"].anomaly_types[k]
              IN  /\ t.total_count >= 1 /\ Defined(t.avg_price) /\ Defined(t.avg_z_score)
                  /\ \A d \in DOMAIN t.daily_counts :
                        t.daily_counts[d].count >= 1 /\ Defined(t.daily_counts[d].intensity)
    /\ Has("geo_flows") =>
          \A k \in DOMAIN export["geo_flows"].flows :
              LET f == export["geo_flows"].flows[k]
              IN  f.tx_count >= 1 /\ Defined(f.anomaly_rate)
    /\ Has("marketplaces") =>
          \A k \in DOMAIN export["marketplaces"].marketplaces :
              LET m == export["marketplaces"].marketplaces[k]
              IN  m.stats.total_transactions >= 1 /\ Defined(m.stats.anomaly_rate)
    /\ Has("stats") =>
          LET x == export["stats"]
          IN  /\ \A k \in DOMAIN x.anomaly_breakdown :
                    /\ x.anomaly_breakdown[k].count >= 1
                    /\ Defined(x.anomaly_breakdown[k].avg_price)
                    /\ Defined(x.anomaly_breakdown[k].avg_z_score)
              /\ \A k \in DOMAIN x.marketplaces :
                    x.marketplaces[k].transactions >= 1
                    /\ Defined(x.marketplaces[k].anomaly_rate)
              /\ \A c \in DOMAIN x.categories :
                    x.categories[c].total >= 1 /\ Defined(x.categories[c].anomaly_rate)

\* The labels of the ledger rows of the edge group (b, s), in ledger order.
GroupLabels(b, s) ==
    Column(transactions,
           Where(transactions, { r \in SeqRange(transactions) : r.buyer_id = b /\ r.seller_id = s }),
           [r \in SeqRange(transactions) |-> r.anomaly_label])

FirstAt(labels, l) == CHOOSE k \in 1..Len(labels) :
                          labels[k] = l /\ \A j \in 1..(k - 1) : labels[j] # l

Modal(labels, l) ==
    /\ l \in SeqRange(labels)
    /\ \A m \in SeqRange(labels) : Freq(labels, m) <= Freq(labels, l)

\* C6 (as claimed): the anomaly_type of every edge is a most frequent label
\* of its group, and among several most frequent labels the one met first in
\* the group's ledger order.
C6_FirstEncounteredWins ==
    Has("network") =>
        \A k \in DOMAIN EdgeSeq :
            LET labels == GroupLabels(EdgeSeq[k].source, EdgeSeq[k].target)
                l == EdgeSeq[k].anomaly_type
            IN  /\ Modal(labels, l)
                /\ \A m \in SeqRange(labels) :
                      Modal(labels, m) => FirstAt(labels, l) <= FirstAt(labels, m)

\* C6 (amended): the anomaly_type of every edge is a most frequent label of
\* its group, and among several most frequent labels the smallest in sort
\* order.
C6_SmallestLabelWins ==
    Has("network") =>
        \A k \in DOMAIN EdgeSeq :
            LET labels == GroupLabels(EdgeSeq[k].source, EdgeSeq[k].target)
                l == EdgeSeq[k].anomaly_type
            IN  /\ Modal(labels, l)
                /\ \A m \in SeqRange(labels) :
                      Modal(labels, m) => Rank(l) <= Rank(m)

\* an edge whose group has two most frequent labels, the emitted one not
\* being the one met first
C6_Witness ==
    /\ Has("network")
    /\ \E k \in DOMAIN EdgeSeq :
          LET labels == GroupLabels(EdgeSeq[k].source, EdgeSeq[k].target)
          IN  \E m \in SeqRange(labels) :
                 /\ m # EdgeSeq[k].anomaly_type
                 /\ Modal(labels, m)
                 /\ FirstAt(labels, m) < FirstAt(labels, EdgeSeq[k].anomaly_type)

RingSet == { export["wash_ring"].nodes[k].id : k \in DOMAIN export["wash_ring"].nodes }

\* the ledger rows with both endpoints in the ring set, in ledger order
Induced ==
    SelectSeq(AllIdx(transactions),
              LAMBDA i : transactions[i].buyer_id \in RingSet
                         /\ transactions[i].seller_id \in RingSet)

\* C7: every exported ring edge is a transaction with both endpoints in the
\* ring-user set (at most RingTopN users, each with at least the wash-trade
\* appearances of any user left out), and the exported list is the first
\* min(RingEdgeCap, n) induced transactions in ledger order.
C7_RingEdgesInducedPrefix ==
    Has("wash_ring") =>
        LET edges == export["wash_ring"].edges
        IN  /\ Cardinality(RingSet) <= RingTopN
            /\ \A u \in RingSet : \A w \in UserIds(transactions) \ RingSet :
                  RingCounts(transactions)[u] >= RingCounts(transactions)[w]
            /\ \A k \in DOMAIN edges :
                  edges[k].source \in RingSet /\ edges[k].target \in RingSet
            /\ Len(edges) = Min(RingEdgeCap, Len(Induced))
            /\ \A k \in DOMAIN edges : edges[k] = RingEdge(transactions[Induced[k]])

\* the cap cuts the list, and the edges kept differ from those cut
C7_Witness ==
    /\ Has("wash_ring")
    /\ Len(Induced) > RingEdgeCap
    /\ Len(export["wash_ring"].edges) = RingEdgeCap
    /\ RingEdge(transactions[Induced[Len(Induced)]]) # export["wash_ring"].edges[1]

CrossRegion == { i \in 1..Len(transactions) :
                    transactions[i].buyer_region # transactions[i].seller_region }

\* C8: group counts conserve rows: the edges' tx_count sum to the number of
\* transactions with both endpoints in the active set, and no two edges
\* share a (buyer, seller) pair; for each anomaly type the daily counts sum
\* to its total_count, which is the number of rows of that type; the flows'
\* tx_count sum to the number of transactions with
\* buyer_region # seller_region, and no two flows share a key.
C8_CountsConserveRows ==
    /\ Has("network") =>
          /\ SumSeq([k \in DOMAIN EdgeSeq |-> EdgeSeq[k].tx_count])
                = Cardinality({ i \in 1..Len(transactions) :
                                   /\ transactions[i].buyer_id \in ActiveSet
                                   /\ transactions[i].seller_id \in ActiveSet })
          /\ \A j, k \in DOMAIN EdgeSeq :
                j # k => << EdgeSeq[j].source, EdgeSeq[j].target >>
                            # << EdgeSeq[k].source, EdgeSeq[k].target >>
    /\ Has("timeline") =>
          \A k \in DOMAIN export["timeline"].anomaly_types :
              LET t == export["timeline"].anomaly_types[k]
              IN  /\ SumSeq([d \in DOMAIN t.daily_counts |-> t.daily_counts[d].count])
                        = t.total_count
                  /\ t.total_count
                        = Cardinality({ i \in 1..Len(transactions) :
                                           transactions[i].anomaly_label = t.type })
                  /\ \A c, d \in DOMAIN t.daily_counts :
                        c # d => t.daily_counts[c].day # t.daily_counts[d].day
    /\ Attempted("geo_flows") =>
          /\ SumSeq([k \in DOMAIN flows |-> flows[k].transaction_id])
                = Cardinality(CrossRegion)
          /\ \A j, k \in DOMAIN flows :
                j # k => << flows[j].buyer_region, flows[j].seller_region,
                            flows[j].marketplace >>
                         # << flows[k].buyer_region, flows[k].seller_region,
                             flows[k].marketplace >>
    /\ Has("geo_flows") =>
          SumSeq([k \in DOMAIN export["geo_flows"].flows |->
                     export["geo_flows"].flows[k].tx_count])
             = Cardinality(CrossRegion)

\* all three groupings have run on a ledger with a row outside the active
\* set, an anomaly, a cross-region row and a self-loop row
C8_Witness ==
    /\ status["geo_flows"] = "written"
    /\ \E i \in 1..Len(transactions) : transactions[i].buyer_id \notin ActiveSet
    /\ \E i \in 1..Len(transactions) : IsAnomaly(transactions[i])
    /\ CrossRegion # {}
    /\ CrossRegion # 1..Len(transactions)

\* C9: every emitted anomaly_rate (flows, marketplace cluster stats, stats
\* marketplaces and categories, overview detection_rate) and every clamped
\* intensity (edges, particles, flows) lies in [0, 1].
C9_RatesInUnitInterval ==
    /\ Has("network") => \A k \in DOMAIN EdgeSeq : InUnit(EdgeSeq[k].intensity)
    /\ Has("particles") => \A q \in export["particles"].particles : InUnit(q.intensity)
    /\ Has("geo_flows") =>
          \A k \in DOMAIN export["geo_flows"].flows :
              /\ InUnit(export["geo_flows"].flows[k].anomaly_rate)
              /\ InUnit(export["geo_flows"].flows[k].intensity)
    /\ Has("marketplaces") =>
          \A k \in DOMAIN export["marketplaces"].marketplaces :
              InUnit(export["marketplaces"].marketplaces[k].stats.anomaly_rate)
    /\ Has("stats") =>
          LET x == export["stats"]
          IN  /\ InUnit(x.overview.detection_rate)
              /\ \A k \in DOMAIN x.marketplaces : InUnit(x.marketplaces[k].anomaly_rate)
              /\ \A c \in DOMAIN x.categories : InUnit(x.categories[c].anomaly_rate)

UnknownCrossRegion ==
    \E i \in CrossRegion :
        \/ transactions[i].buyer_region \notin DOMAIN region_coords
        \/ transactions[i].seller_region \notin DOMAIN region_coords

\* C10: when a cross-region group names a region code without an entry in
\* region_coords, the flow aggregation fails with the missing-lookup error
\* (KeyError), which ends the script, and geo_flows.json is not written; a
\* flow entry that is emitted carries the table's coordinates of both its
\* regions.
C10_UnknownRegionFails ==
    /\ Attempted("geo_flows") /\ UnknownCrossRegion =>
          /\ status["geo_flows"] = "failed"
          /\ error = "KeyError"
          /\ "geo_flows.json" \notin files
    /\ Has("geo_flows") =>
          \A k \in DOMAIN export["geo_flows"].flows :
              LET f == export["geo_flows"].flows[k]
              IN  /\ f.source \in DOMAIN region_coords
                  /\ f.target \in DOMAIN region_coords
                  /\ f.source_coords = << region_coords[f.source] >>
                  /\ f.target_coords = << region_coords[f.target] >>

\* the aggregation has failed on an unknown region of a cross-region group,
\* on a ledger that also has an unknown region in a self-loop group
C10_Witness ==
    /\ status["geo_flows"] = "failed"
    /\ error = "KeyError"
    /\ UnknownCrossRegion
    /\ \E i \in 1..Len(transactions) :
          /\ i \notin CrossRegion
          /\ transactions[i].buyer_region \notin DOMAIN region_coords

TopList == export["dashboard_top"].anomalies

TopIds == { TopList[k].transaction_id : k \in DOMAIN TopList }

AnomalyIds == { i \in 1..Len(transactions) : IsAnomaly(transactions[i]) }

\* C11: the top-anomalies list holds only anomalous transactions, each at
\* most once and with the fields of its ledger row; it is sorted by
\* non-increasing |price_z|; its length is min(TopAnomaliesCap, number of
\* anomalies), so a ledger with fewer anomalies than the cap returns all of
\* them; and no anomaly left out has a strictly larger |price_z| than one
\* included.
C11_TopAnomalies ==
    Has("dashboard_top") =>
        /\ TopIds \subseteq AnomalyIds
        /\ \A k \in DOMAIN TopList :
              /\ TopList[k].price_z = transactions[TopList[k].transaction_id].price_z
              /\ TopList[k].anomaly_label
                    = transactions[TopList[k].transaction_id].anomaly_label
              /\ TopList[k].anomaly_label # "normal"
        /\ \A j, k \in DOMAIN TopList :
              j < k => /\ TopList[j].transaction_id # TopList[k].transaction_id
                       /\ Abs(TopList[j].price_z) >= Abs(TopList[k].price_z)
        /\ Len(TopList) = Min(TopAnomaliesCap, Cardinality(AnomalyIds))
        /\ Cardinality(AnomalyIds) < TopAnomaliesCap => TopIds = AnomalyIds
        /\ \A i \in AnomalyIds \ TopIds : \A k \in DOMAIN TopList :
              Abs(transactions[i].price_z) <= Abs(TopList[k].price_z)

\* the cap cuts the list: an anomaly is left out, the anomalies included
\* differ in |price_z|, and the largest is not the first in the ledger
C11_Witness ==
    /\ Has("dashboard_top")
    /\ AnomalyIds \ TopIds # {}
    /\ Len(TopList) = TopAnomaliesCap
    /\ Abs(TopList[1].price_z) > Abs(TopList[Len(TopList)].price_z)
    /\ \E i \in AnomalyIds : i < TopList[1].transaction_id

====
